---------------------------- MODULE Spec2Model ----------------------------
(***************************************************************************)
(* Model of the chat context core of AgentsChatGroup:                      *)
(*   crates/services/src/services/chat.rs               (mention parser,   *)
(*       content compressor, context assembler, message creation)          *)
(*   crates/services/src/services/chat_history_file.rs  (history files)    *)
(*                                                                         *)
(* Text is a sequence of characters, each character a string: itself for   *)
(* an ASCII character, its name for another ("e-acute" is U+00E9,          *)
(* "ideographic-stop" is U+3002).  Sequences are 1-based here and 0-based  *)
(* in the source: source index i is position i + 1.                        *)
(***************************************************************************)
EXTENDS Integers, Sequences, FiniteSets, TLC

VARIABLES
    pc,          \* the caller of a function: "call" before it runs, "return" after
    text,        \* parse_mentions: the argument `content`
    mentions,    \* parse_mentions: the returned Vec<String>
    content,     \* compress_content: the argument `content`
    max_chars,   \* compress_content: the argument `max_chars`
    compressed,  \* compress_content: the returned String
    sessions,    \* the store's chat_sessions rows, by identity
    messages,    \* the store's chat_messages rows, in creation order
    clock,       \* the time, advanced by every write to the store
    calls,       \* create_message_with_id: each call's arguments, position,
                 \* locals, store operations issued so far and outcome
    files,       \* the chat_history directory: path -> file content, None if absent
    hcalls,      \* the history-file calls: arguments, position, locals, outcome
    tokenizer,   \* whether the cl100k_base tokenizer loads in this process:
                 \* "Ok" or "Err"
    callers,     \* how the history-file calls are made: "serialized" (one at
                 \* a time) or "concurrent"
    tokenArgs,   \* estimate_token_count: two message lists, given by the
                 \* byte lengths of their texts, the second the first with
                 \* one content grown
    tokenOut,    \* ... the estimate returned for each of the two
    ctxSession,  \* build_structured_messages_with_compression: `session_id`
    ctxResult,   \* ... its outcome: "Ok" or "Database"
    context,     \* ... the returned Vec<Value> when the outcome is "Ok"
    fullContext  \* build_structured_messages: `session_id`, the outcome
                 \* ("none" before the call) and the returned Vec<Value>

mentionVars == <<text, mentions>>

compressVars == <<content, max_chars, compressed>>

contextVars == <<ctxSession, ctxResult, context, fullContext>>

storeVars == <<sessions, messages, clock>>

historyVars == <<files, hcalls, callers, tokenizer>>

tokenVars == <<tokenArgs, tokenOut>>

nonHistoryVars ==
    <<pc, text, mentions, content, max_chars, compressed,
      sessions, messages, clock, calls, ctxSession, ctxResult, context, fullContext,
      tokenArgs, tokenOut>>

vars == <<pc, text, mentions, content, max_chars, compressed,
          sessions, messages, clock, calls, files, hcalls, callers, tokenizer,
          ctxSession, ctxResult, context, fullContext, tokenArgs, tokenOut>>

Range(s) == {s[i] : i \in 1..Len(s)}

Min(a, b) == IF a <= b THEN a ELSE b

Max(a, b) == IF a >= b THEN a ELSE b

(***************************************************************************)
(* Characters.                                                             *)
(***************************************************************************)
AsciiLetters ==
    {"a", "b", "c", "d", "e", "h", "i", "k", "l", "m", "n", "o", "p", "r", "s",
     "t", "u", "x"}

AsciiDigits == {"1"}

\* A letter outside ASCII: char::is_alphanumeric holds, is_ascii_alphanumeric
\* does not.
NonAsciiLetters == {"e-acute"}

is_ascii_alphanumeric(c) == c \in AsciiLetters \cup AsciiDigits

is_alphanumeric(c) == c \in AsciiLetters \cup AsciiDigits \cup NonAsciiLetters

is_whitespace(c) == c \in {" ", "\n"}

(***************************************************************************)
(* compress_content (chat.rs 68-98).                                       *)
(***************************************************************************)
\* chat.rs 97: the literal "...[truncated]"
Marker == <<".", ".", ".", "[", "t", "r", "u", "n", "c", "a", "t", "e", "d", "]">>

\* str::trim scanning from the front: the first position from i on that
\* holds no whitespace
RECURSIVE SkipLeading(_, _)
SkipLeading(chars, i) ==
    IF i <= Len(chars) /\ is_whitespace(chars[i]) THEN SkipLeading(chars, i + 1)
    ELSE i

\* str::trim scanning from the back: the last position up to i that holds no
\* whitespace
RECURSIVE SkipTrailing(_, _)
SkipTrailing(chars, i) ==
    IF i >= 1 /\ is_whitespace(chars[i]) THEN SkipTrailing(chars, i - 1)
    ELSE i

\* str::trim (chat.rs 69, 97): the text without its leading and trailing
\* whitespace
trim(chars) ==
    SubSeq(chars, SkipLeading(chars, 1), SkipTrailing(chars, Len(chars)))

\* chat.rs 80: the characters that end a sentence
IsSentenceEnd(c) ==
    c \in {".", "!", "?", "ideographic-stop", "fullwidth-exclamation",
           "fullwidth-question"}

\* chat.rs 89: the characters at which a word ends
IsWordBoundary(c) == is_whitespace(c) \/ c = ","

\* chat.rs 70, with < for <=
FitsStrict(len, max) == len < max

\* chat.rs 70: `content.chars().count() <= max_chars`
Fits(len, max) == len <= max

\* chat.rs 79 and 88: `(max_chars / 2..max_chars).rev()`, the source indices
\* i of the range that pass `i < chars.len()`
ScanRange(chars, max) == {i \in (max \div 2)..(max - 1) : i < Len(chars)}

Highest(S) == CHOOSE i \in S : \A k \in S : i >= k

\* chat.rs 76-84: break_point after the sentence loop
SentenceBreak(chars, max) ==
    LET hits == {i \in ScanRange(chars, max) : IsSentenceEnd(chars[i + 1])}
    IN  IF hits = {} THEN max ELSE Highest(hits) + 1

\* chat.rs 76-94: break_point after both loops
BreakPoint(chars, max) ==
    LET bp == SentenceBreak(chars, max)
    IN  IF bp = max
        THEN LET hits == {i \in ScanRange(chars, max) : IsWordBoundary(chars[i + 1])}
             IN  IF hits = {} THEN bp ELSE Highest(hits)
        ELSE bp

compress_content(raw, max) ==
    LET chars == trim(raw)
    IN  IF Fits(Len(chars), max) THEN chars
        ELSE LET bp == BreakPoint(chars, max)
                 truncated == SubSeq(chars, 1, Min(bp, Len(chars)))
             IN  trim(truncated) \o Marker

(***************************************************************************)
(* parse_mentions (chat.rs 194-229).                                       *)
(***************************************************************************)
\* chat.rs 206, with the '.' case dropped
PrevBlocksMentionNoDot(prev) ==
    is_ascii_alphanumeric(prev) \/ prev = "_" \/ prev = "-"

\* chat.rs 206: the character before '@' that makes the loop `continue`
PrevBlocksMention(prev) ==
    is_ascii_alphanumeric(prev) \/ prev = "_" \/ prev = "-" \/ prev = "."

\* chat.rs 215: a character the handle consumes
IsHandleChar(c) == is_ascii_alphanumeric(c) \/ c = "_" \/ c = "-"

\* chat.rs 200-209: position i passes both `continue` tests
StartsMention(chars, i) ==
    /\ chars[i] = "@"
    /\ (i > 1 => ~PrevBlocksMention(chars[i - 1]))

\* chat.rs 211-221: the while loop that collects `name` from position j on
RECURSIVE TakeName(_, _)
TakeName(chars, j) ==
    IF j <= Len(chars) /\ IsHandleChar(chars[j])
    THEN <<chars[j]>> \o TakeName(chars, j + 1)
    ELSE <<>>

\* chat.rs 223, without the seen-set
ShouldPushNoSeen(name, seen) == name # <<>>

\* chat.rs 223: `!name.is_empty() && seen.insert(name.clone())`
ShouldPush(name, seen) == name # <<>> /\ name \notin seen

\* chat.rs 200-202: the first position from i on that holds an '@', the
\* positions before it being skipped by `continue`; Len(chars) + 1 if none
NextAt(chars, i) ==
    LET ats == {j \in i..Len(chars) : chars[j] = "@"}
    IN  IF ats = {} THEN Len(chars) + 1
        ELSE CHOOSE j \in ats : \A k \in ats : j <= k

\* chat.rs 199-226: the for loop from position i on, with the loop's state
RECURSIVE MentionLoop(_, _, _, _)
MentionLoop(chars, i, acc, seen) ==
    LET at == NextAt(chars, i)
    IN  IF at > Len(chars) THEN acc
        ELSE IF ~StartsMention(chars, at) THEN MentionLoop(chars, at + 1, acc, seen)
        ELSE LET name == TakeName(chars, at + 1)
             IN  IF ShouldPush(name, seen)
                 THEN MentionLoop(chars, at + 1, Append(acc, name),
                                  seen \cup {name})
                 ELSE MentionLoop(chars, at + 1, acc, seen)

parse_mentions(chars) == MentionLoop(chars, 1, <<>>, {})

(***************************************************************************)
(* JSON values (serde_json::Value) and Option.  A value is a record with   *)
(* its kind in t and its payload in v; a string whose characters matter    *)
(* (message content) is a JText holding the character sequence, any other  *)
(* string a JStr.  None is the absent Option.                              *)
(***************************************************************************)
None == [t |-> "none"]

JNull == [t |-> "null"]

JBool(b) == [t |-> "bool", v |-> b]

JNum(n) == [t |-> "number", v |-> n]

JStr(str) == [t |-> "string", v |-> str]

JText(chars) == [t |-> "text", v |-> chars]

JArr(items) == [t |-> "array", v |-> items]

JObj(fields) == [t |-> "object", v |-> fields]

\* A JSON string in RFC 3339 form, held as the time it states
JTime(now) == [t |-> "time", v |-> now]

EmptyObj == JObj(<<>>)

\* Value::get(key): None on a non-object and on a missing key
Get(value, key) ==
    IF value.t = "object" /\ key \in DOMAIN value.v THEN value.v[key] ELSE None

\* `value[key] = item` on an object (IndexMut): insert or replace
Set(value, key, item) ==
    JObj([k \in DOMAIN value.v \cup {key} |->
            IF k = key THEN item ELSE value.v[k]])

\* Option<String> and Option<Uuid> as JSON: null for None
JOpt(opt) == IF opt = "none" THEN JNull ELSE JStr(opt)

\* `.and_then(|value| value.as_str())`: "none" unless a JSON string
AsStr(value) == IF value.t = "string" THEN value.v ELSE "none"

(***************************************************************************)
(* The relational store, seen through the operations chat.rs calls.        *)
(***************************************************************************)
SessionIds == {"S1", "S2"}

\* ChatAgent rows: identity -> name.  "A2" is the identity of no agent.
AgentDirectory == [a \in {"A1"} |-> "coder"]

SenderIds == {"none", "A1", "A2"}

SenderTypes == {"User", "Agent", "System"}

\* ChatMessage::find_by_session_id(pool, session_id, None): the session's
\* rows, ascending by creation
find_by_session_id(rows, sid) ==
    LET keep == {i \in 1..Len(rows) : rows[i].session_id = sid}
        RECURSIVE Pick(_)
        Pick(i) == IF i > Len(rows) THEN <<>>
                   ELSE IF i \in keep THEN <<rows[i]>> \o Pick(i + 1)
                   ELSE Pick(i + 1)
    IN  Pick(1)

\* ChatAgent::find_by_id / the agent_map lookup: the name, or "none"
AgentName(sender_id) ==
    IF sender_id \in DOMAIN AgentDirectory THEN AgentDirectory[sender_id] ELSE "none"

(***************************************************************************)
(* Sender resolution (chat.rs 125-151, 285-317, 361-387).                  *)
(***************************************************************************)
\* chat.rs 125-130: meta.get("sender_handle").and_then(as_str)
SenderHandle(meta) == AsStr(Get(meta, "sender_handle"))

\* chat.rs 134-143
SenderLabel(sender_type, sender_id, handle, name) ==
    CASE sender_type = "User" -> IF handle # "none" THEN handle ELSE "user"
      [] sender_type = "Agent" ->
            IF name # "none" THEN name
            ELSE IF sender_id # "none" THEN sender_id ELSE "agent"
      [] OTHER -> "system"

\* chat.rs 145-151
SenderDescriptor(sender_type, sender_id, handle, name) ==
    JObj([k \in {"type", "id", "handle", "name", "label"} |->
            CASE k = "type" -> JStr(sender_type)
              [] k = "id" -> JOpt(sender_id)
              [] k = "handle" -> JOpt(handle)
              [] k = "name" -> JOpt(name)
              [] OTHER -> JStr(SenderLabel(sender_type, sender_id, handle, name))])

(***************************************************************************)
(* Metadata of a new message (chat.rs 47-55, 274-328).                     *)
(***************************************************************************)
\* serde's Deserialize of ChatAttachmentMeta (chat.rs 37-45) from an object:
\* every field but the Option is required, unknown keys are ignored
IsAttachmentMeta(value) ==
    /\ value.t = "object"
    /\ {"id", "name", "size_bytes", "kind", "relative_path"} \subseteq DOMAIN value.v
    /\ \A k \in {"id", "name", "kind", "relative_path"} : value.v[k].t = "string"
    /\ value.v["size_bytes"].t = "number"
    /\ ("mime_type" \in DOMAIN value.v => value.v["mime_type"].t \in {"string", "null"})

\* chat.rs 47-51: the list under "attachments" when all of it deserializes,
\* else the default, an empty list
extract_attachments(meta) ==
    LET value == Get(meta, "attachments")
    IN  IF /\ value.t = "array"
           /\ \A i \in 1..Len(value.v) : IsAttachmentMeta(value.v[i])
        THEN value.v
        ELSE <<>>

\* chat.rs 53-55
has_attachments(meta) == extract_attachments(meta) # <<>>

\* chat.rs 275-278: None becomes {}, a non-object becomes {"raw_meta": it}
NormalizeMeta(meta) ==
    IF meta = None THEN EmptyObj
    ELSE IF meta.t # "object" THEN Set(EmptyObj, "raw_meta", meta)
    ELSE meta

\* chat.rs 279, with the attachments not looked at
EmptyContentOnly(chars, meta) == trim(chars) = <<>>

\* chat.rs 279: the test that fails the call with Validation
EmptyWithoutAttachments(chars, meta) == trim(chars) = <<>> /\ ~has_attachments(meta)

\* chat.rs 320-328: the "structured" snapshot
StructuredSnapshot(sender_type, sender_id, handle, label, chars, found, now) ==
    JObj([k \in {"sender_type", "sender_id", "sender_handle", "sender_label",
                 "content", "mentions", "created_at"} |->
            CASE k = "sender_type" -> JStr(sender_type)
              [] k = "sender_id" -> JOpt(sender_id)
              [] k = "sender_handle" -> JOpt(handle)
              [] k = "sender_label" -> JStr(label)
              [] k = "content" -> JText(chars)
              [] k = "mentions" -> JArr([i \in 1..Len(found) |-> JText(found[i])])
              [] OTHER -> JNum(now)])

\* chat.rs 285-328, with the sender block written whether or not the caller
\* supplied one
StampMetaOverwritingSender(sender_type, sender_id, chars, meta, name, now) ==
    LET handle == SenderHandle(meta)
        label == SenderLabel(sender_type, sender_id, handle, name)
        withSender == Set(meta, "sender",
                          SenderDescriptor(sender_type, sender_id, handle, name))
    IN  Set(withSender, "structured",
            StructuredSnapshot(sender_type, sender_id, handle, label, chars,
                               parse_mentions(chars), now))

\* chat.rs 285-328: the metadata stored with the message; `meta` is the
\* normalized object, `name` the agent's name or "none"
StampMeta(sender_type, sender_id, chars, meta, name, now) ==
    LET handle == SenderHandle(meta)
        label == SenderLabel(sender_type, sender_id, handle, name)
        withSender ==
            IF Get(meta, "sender") = None
            THEN Set(meta, "sender",
                     SenderDescriptor(sender_type, sender_id, handle, name))
            ELSE meta
    IN  Set(withSender, "structured",
            StructuredSnapshot(sender_type, sender_id, handle, label, chars,
                               parse_mentions(chars), now))

\* ChatMessage::create(pool, &CreateChatMessage {..}, message_id): the row
NewRow(message_id, session_id, sender_type, sender_id, chars, meta, now) ==
    [id |-> message_id,
     session_id |-> session_id,
     sender_type |-> sender_type,
     sender_id |-> sender_id,
     content |-> chars,
     mentions |-> parse_mentions(chars),
     meta |-> meta,
     created_at |-> now]

(***************************************************************************)
(* build_structured_messages_with_compression (chat.rs 104-192).           *)
(***************************************************************************)
\* chat.rs 17
MAX_CONTEXT_MESSAGES == 30

\* chat.rs 19
RECENT_MESSAGES_FULL == 5

\* chat.rs 163: `.max(100)`
MinTargetChars == 100

\* chat.rs 163: `.min(500)`
MaxTargetChars == 500

\* chat.rs 115-119, keeping one message too few
WindowOffByOne(rows) ==
    IF Len(rows) > MAX_CONTEXT_MESSAGES
    THEN SubSeq(rows, Len(rows) - MAX_CONTEXT_MESSAGES + 2, Len(rows))
    ELSE rows

\* chat.rs 115-119: `skip(total_messages - MAX_CONTEXT_MESSAGES)`
Window(rows) ==
    IF Len(rows) > MAX_CONTEXT_MESSAGES
    THEN SubSeq(rows, Len(rows) - MAX_CONTEXT_MESSAGES + 1, Len(rows))
    ELSE rows

\* usize::saturating_sub
saturating_sub(a, b) == IF a >= b THEN a - b ELSE 0

\* chat.rs 155: idx is the source's 0-based index
IsRecent(idx, message_count) ==
    idx >= saturating_sub(message_count, RECENT_MESSAGES_FULL)

\* chat.rs 162: (original_len as f64 * 0.4) as usize.  The double nearest to
\* 0.4 lies above 0.4 by less than 2^-54, so for every length a message can
\* have the product truncates to floor(2 * len / 5).
TargetLen(original_len) == (original_len * 2) \div 5

\* chat.rs 163, with the upper clamp at 600
ClampTargetWide(target_len) == Min(Max(target_len, MinTargetChars), 600)

\* chat.rs 163: `target_len.max(100).min(500)`
ClampTarget(target_len) == Min(Max(target_len, MinTargetChars), MaxTargetChars)

\* chat.rs 157-165
EntryContent(message, is_recent) ==
    IF is_recent THEN message.content
    ELSE compress_content(message.content,
                          ClampTarget(TargetLen(Len(message.content))))

\* chat.rs 168-177, with the metadata kept whole for every message
EntryMetaKeepingAll(message, is_recent) == message.meta

\* chat.rs 168-177
EntryMeta(message, is_recent) ==
    IF is_recent THEN message.meta
    ELSE IF Get(message.meta, "sender") # None
         THEN Set(EmptyObj, "sender", Get(message.meta, "sender"))
         ELSE EmptyObj

\* chat.rs 124-188: one iteration of the loop
CompactedEntry(message, idx, message_count) ==
    LET handle == SenderHandle(message.meta)
        name == AgentName(message.sender_id)
        is_recent == IsRecent(idx, message_count)
    IN  [id |-> message.id,
         session_id |-> message.session_id,
         created_at |-> message.created_at,
         sender |-> SenderDescriptor(message.sender_type, message.sender_id,
                                     handle, name),
         content |-> EntryContent(message, is_recent),
         mentions |-> message.mentions,
         meta |-> EntryMeta(message, is_recent),
         compressed |-> ~is_recent]

build_structured_messages_with_compression(rows, session_id) ==
    LET window == Window(find_by_session_id(rows, session_id))
    IN  [i \in 1..Len(window) |-> CompactedEntry(window[i], i - 1, Len(window))]

(***************************************************************************)
(* build_structured_messages (chat.rs 349-401).                            *)
(***************************************************************************)
\* chat.rs 360-399: one iteration of the loop
FullEntry(message) ==
    LET handle == SenderHandle(message.meta)
        name == AgentName(message.sender_id)
    IN  [id |-> message.id,
         session_id |-> message.session_id,
         created_at |-> message.created_at,
         sender |-> SenderDescriptor(message.sender_type, message.sender_id,
                                     handle, name),
         content |-> message.content,
         mentions |-> message.mentions,
         meta |-> message.meta]

\* chat.rs 349-401, with the window of the compacted builder applied
build_structured_messages_windowed(rows, session_id) ==
    LET found == Window(find_by_session_id(rows, session_id))
    IN  [i \in 1..Len(found) |-> FullEntry(found[i])]

\* chat.rs 349-401
build_structured_messages(rows, session_id) ==
    LET found == find_by_session_id(rows, session_id)
    IN  [i \in 1..Len(found) |-> FullEntry(found[i])]

(***************************************************************************)
(* The history files (chat_history_file.rs).  A file holds text; the text  *)
(* of a file that parses as JSON is held as the JSON value it parses to,   *)
(* any other text (a truncated or foreign file) is Malformed.              *)
(***************************************************************************)
Malformed == [t |-> "malformed"]

\* chat_history_file.rs 74-76, with one file name for every session
chat_history_path_shared(session_id) == "S1" \o ".json"

\* chat_history_file.rs 74-76: `{session_id}.json` in the history directory
chat_history_path(session_id) == session_id \o ".json"

\* chat_history_file.rs 79-81, with the name of the main file
chat_history_split_path_as_main(session_id) == session_id \o ".json"

\* chat_history_file.rs 79-81
chat_history_split_path(session_id) == session_id \o "_split.json"

HistoryPaths ==
    {chat_history_path(s) : s \in SessionIds}
        \cup {chat_history_split_path(s) : s \in SessionIds}

\* Path::exists
Exists(fs, path) == fs[path] # None

(* Byte counts and token counts.  A usize byte count is held as a record   *)
(* [hi, lo] standing for hi * 3 * 2^20 + lo with lo < 3 * 2^20, and a u32  *)
(* as [hi, lo] standing for hi * 2^20 + lo with lo < 2^20 and hi < 2^12,   *)
(* so that counts of many gigabytes and the 32-bit width of the result are *)
(* both exact.                                                             *)
Limb == 2^20

SizeLimb == 3 * Limb

\* The usize n, for n < 3 * 2^20
SmallSize(n) == [hi |-> 0, lo |-> n]

\* usize addition (no sum of lengths that fit in memory overflows 64 bits)
AddSize(a, b) ==
    IF a.lo + b.lo >= SizeLimb
    THEN [hi |-> a.hi + b.hi + 1, lo |-> a.lo + b.lo - SizeLimb]
    ELSE [hi |-> a.hi + b.hi, lo |-> a.lo + b.lo]

SizeLess(a, b) == a.hi < b.hi \/ (a.hi = b.hi /\ a.lo < b.lo)

U32Zero == [hi |-> 0, lo |-> 0]

U32Leq(a, b) == a.hi < b.hi \/ (a.hi = b.hi /\ a.lo <= b.lo)

\* chat_history_file.rs 110: `(total_chars / 3) as u32`; the cast keeps the
\* low 32 bits, 2^32 being 2^12 * 2^20
ThirdAsU32(total) == [hi |-> total.hi % (2^12), lo |-> total.lo \div 3]

\* chat_history_file.rs 105-108: the loop over the messages; `sizes[i]` holds
\* msg.sender.len() and msg.content.len()
TotalChars(sizes) ==
    LET RECURSIVE Total(_)
        Total(i) == IF i > Len(sizes) THEN SmallSize(0)
                    ELSE AddSize(AddSize(AddSize(sizes[i].sender, sizes[i].content),
                                         SmallSize(2)),
                                 Total(i + 1))
    IN  Total(1)

\* chat_history_file.rs 104-111 on the byte lengths of the texts
FallbackOnSizes(sizes) == ThirdAsU32(TotalChars(sizes))

\* chat_history_file.rs 104-111 on messages with short texts, as a number;
\* String::len counts bytes, and the texts of this model are ASCII
estimate_token_count_fallback(msgs) ==
    LET sizes == [i \in 1..Len(msgs) |->
                    [sender |-> SmallSize(Len(msgs[i].sender)),
                     content |-> SmallSize(Len(msgs[i].content))]]
        tokens == FallbackOnSizes(sizes)
    IN  tokens.hi * Limb + tokens.lo

\* chat_history_file.rs 93-99.  The tokenizer is the tiktoken_rs crate's;
\* the number of tokens it finds in "{sender}: {content}" is represented by
\* one token for every four bytes, rounded up.
TokenizerCount(msgs) ==
    LET RECURSIVE Total(_)
        Total(i) ==
            IF i > Len(msgs) THEN 0
            ELSE ((Len(msgs[i].sender) + 2 + Len(msgs[i].content)) + 3) \div 4
                    + Total(i + 1)
    IN  Total(1)

\* chat_history_file.rs 84-100: `loaded` tells whether cl100k_base() loads
estimate_token_count(msgs, loaded) ==
    IF loaded = "Ok" THEN TokenizerCount(msgs)
    ELSE estimate_token_count_fallback(msgs)

\* chat_history_file.rs 129-139: the record write_chat_history builds
HistoryRecord(session_id, now, msgs, token_count, compression_applied, split_file) ==
    [session_id |-> session_id,
     created_at |-> now,
     updated_at |-> now,
     messages |-> msgs,
     metadata |-> [token_count |-> token_count,
                   compression_applied |-> compression_applied,
                   split_file |-> split_file]]

\* serde's Serialize of SimplifiedMessage (chat_history_file.rs 20-28)
MessageToJson(msg) ==
    JObj([k \in {"sender", "content", "timestamp"} |->
            CASE k = "sender" -> JStr(msg.sender)
              [] k = "content" -> JStr(msg.content)
              [] OTHER -> JStr(msg.timestamp)])

\* serde_json::to_string_pretty of a ChatHistoryFile (chat_history_file.rs
\* 31-54, 141): a Uuid is written as a string, None as null
ToJson(history) ==
    JObj([k \in {"session_id", "created_at", "updated_at", "messages", "metadata"} |->
            CASE k = "session_id" -> JStr(history.session_id)
              [] k = "created_at" -> JTime(history.created_at)
              [] k = "updated_at" -> JTime(history.updated_at)
              [] k = "messages" ->
                    JArr([i \in 1..Len(history.messages) |->
                            MessageToJson(history.messages[i])])
              [] OTHER ->
                    JObj([m \in {"token_count", "compression_applied", "split_file"} |->
                            CASE m = "token_count" -> JNum(history.metadata.token_count)
                              [] m = "compression_applied" ->
                                    JBool(history.metadata.compression_applied)
                              [] OTHER -> JOpt(history.metadata.split_file)])])

\* serde's Deserialize of SimplifiedMessage: three required strings
IsMessageJson(value) ==
    /\ value.t = "object"
    /\ {"sender", "content", "timestamp"} \subseteq DOMAIN value.v
    /\ \A k \in {"sender", "content", "timestamp"} : value.v[k].t = "string"

\* serde's Deserialize of ChatHistoryMetadata: an Option may be missing or null
IsMetadataJson(value) ==
    /\ value.t = "object"
    /\ {"token_count", "compression_applied"} \subseteq DOMAIN value.v
    /\ value.v["token_count"].t = "number"
    /\ value.v["token_count"].v >= 0       \* a u32; the counts here are small
    /\ value.v["compression_applied"].t = "bool"
    /\ ("split_file" \in DOMAIN value.v => value.v["split_file"].t \in {"string", "null"})

\* serde's Deserialize of ChatHistoryFile
IsHistoryJson(value) ==
    /\ value.t = "object"
    /\ {"session_id", "created_at", "updated_at", "messages", "metadata"}
           \subseteq DOMAIN value.v
    /\ value.v["session_id"].t = "string"
    /\ value.v["session_id"].v \in SessionIds
    /\ value.v["created_at"].t \in {"string", "time"}
    /\ value.v["updated_at"].t \in {"string", "time"}
    /\ value.v["messages"].t = "array"
    /\ \A i \in 1..Len(value.v["messages"].v) : IsMessageJson(value.v["messages"].v[i])
    /\ IsMetadataJson(value.v["metadata"])

MessageFromJson(value) ==
    [sender |-> value.v["sender"].v,
     content |-> value.v["content"].v,
     timestamp |-> value.v["timestamp"].v]

\* chat_history_file.rs 159, with the split_file reference not read back
FromJsonDroppingSplit(value) ==
    LET meta == value.v["metadata"].v
    IN  HistoryRecord(value.v["session_id"].v, value.v["created_at"].v,
                      [i \in 1..Len(value.v["messages"].v) |->
                          MessageFromJson(value.v["messages"].v[i])],
                      meta["token_count"].v, meta["compression_applied"].v, "none")

\* serde_json::from_str::<ChatHistoryFile> (chat_history_file.rs 159, 205) on
\* a text that deserializes; updated_at is read from its own key
FromJson(value) ==
    LET meta == value.v["metadata"].v
        split == IF "split_file" \in DOMAIN meta THEN AsStr(meta["split_file"])
                 ELSE "none"
        read == HistoryRecord(value.v["session_id"].v, value.v["created_at"].v,
                              [i \in 1..Len(value.v["messages"].v) |->
                                  MessageFromJson(value.v["messages"].v[i])],
                              meta["token_count"].v, meta["compression_applied"].v,
                              split)
    IN  [read EXCEPT !.updated_at = value.v["updated_at"].v]

\* The calls are numbered in the order in which they are made; at most
\* MaxHistoryCalls are made.
MaxHistoryCalls == 3

HistoryCallIds == 1..MaxHistoryCalls

IdleHistoryCall ==
    [op |-> "none", pc |-> "idle", session_id |-> "S1", messages |-> <<>>,
     compression_applied |-> FALSE, split_file |-> "none",
     existing |-> <<>>, result |-> "none", value |-> None]

HistoryIdle ==
    /\ files = [path \in HistoryPaths |-> None]
    /\ hcalls = [c \in HistoryCallIds |-> IdleHistoryCall]
    /\ callers = "serialized"
    /\ tokenizer = "Ok"

\* The calls that concurrent callers make
RacingCallIds == {1, 2, 3}

\* Call c can be made: it is the next one, and serialized callers make it
\* only when no call is running
CanCall(c) ==
    /\ hcalls[c].pc = "idle"
    /\ \A d \in HistoryCallIds : d < c => hcalls[d].pc # "idle"
    /\ callers = "serialized" => \A d \in HistoryCallIds : hcalls[d].pc \in {"idle", "done"}
    /\ callers = "concurrent" => c \in RacingCallIds

\* The arguments the calls are made with
MessageA == [sender |-> "user:alice", content |-> "hi", timestamp |-> "t1"]

MessageB == [sender |-> "system", content |-> "", timestamp |-> "t2"]

MessageLists == {<<MessageA>>, <<MessageB, MessageA>>}

\* The messages that create_split_file is given (append_to_split_file is
\* given either of MessageLists)
SplitMessageLists == {<<MessageB>>}

WriteFlags ==
    {[compression_applied |-> FALSE, split_file |-> "none"],
     [compression_applied |-> FALSE, split_file |-> chat_history_split_path("S1")],
     [compression_applied |-> TRUE, split_file |-> chat_history_split_path("S1")]}

Returns(call, result, value) ==
    [call EXCEPT !.pc = "done", !.result = result, !.value = value]

\* std::fs::write, first half: File::create truncates the file, which from
\* then until the text is written holds no JSON
Truncate(fs, path) == [fs EXCEPT ![path] = Malformed]

\* chat_history_file.rs 115-128: write_chat_history is called and runs to
\* the await of fs::write (create_dir_all changes no file)
WriteStart(c) ==
    /\ CanCall(c)
    /\ \E session_id \in SessionIds, msgs \in MessageLists, flags \in WriteFlags :
          hcalls' = [hcalls EXCEPT ![c] =
                       [IdleHistoryCall EXCEPT
                           !.op = "write", !.pc = "write_main",
                           !.session_id = session_id, !.messages = msgs,
                           !.compression_applied = flags.compression_applied,
                           !.split_file = flags.split_file]]
    /\ UNCHANGED <<files, callers, tokenizer, nonHistoryVars>>

\* chat_history_file.rs 142: fs::write creates or truncates the main file
WriteTruncate(c) ==
    /\ hcalls[c].pc = "write_main"
    /\ files' = Truncate(files, chat_history_path(hcalls[c].session_id))
    /\ hcalls' = [hcalls EXCEPT ![c].pc = "fill_main"]
    /\ UNCHANGED <<callers, tokenizer, nonHistoryVars>>

\* chat_history_file.rs 129-144: fs::write writes the text; the time is the
\* call's number
WriteFill(c) ==
    /\ hcalls[c].pc = "fill_main"
    /\ LET call == hcalls[c]
           path == chat_history_path(call.session_id)
           history == HistoryRecord(call.session_id, c, call.messages,
                          estimate_token_count(call.messages, tokenizer),
                          call.compression_applied, call.split_file)
       IN  /\ files' = [files EXCEPT ![path] = ToJson(history)]
           /\ hcalls' = [hcalls EXCEPT ![c] = Returns(call, "Ok", JStr(path))]
    /\ UNCHANGED <<callers, tokenizer, nonHistoryVars>>

\* chat_history_file.rs 149-156: read_chat_history is called; it returns
\* None if the main file does not exist, else awaits fs::read_to_string
ReadStart(c) ==
    /\ CanCall(c)
    /\ \E session_id \in SessionIds :
          LET call == [IdleHistoryCall EXCEPT !.op = "read",
                                              !.session_id = session_id]
          IN  hcalls' = [hcalls EXCEPT ![c] =
                           IF Exists(files, chat_history_path(session_id))
                           THEN [call EXCEPT !.pc = "read_main"]
                           ELSE Returns(call, "Ok", None)]
    /\ UNCHANGED <<files, callers, tokenizer, nonHistoryVars>>

\* A file that exists and does not deserialize as a ChatHistoryFile
Unreadable(fs, path) ==
    Exists(fs, path) /\ (fs[path] = Malformed \/ ~IsHistoryJson(fs[path]))

\* chat_history_file.rs 158-159, with a file that does not deserialize taken
\* for a record of no message
ReadRecordLenient(fs, path) ==
    IF ~Exists(fs, path) THEN [result |-> "Io", value |-> None]
    ELSE IF fs[path] = Malformed \/ ~IsHistoryJson(fs[path])
    THEN [result |-> "Ok",
          value |-> [t |-> "some",
                     history |-> HistoryRecord("S1", 0, <<>>, 0, FALSE, "none")]]
    ELSE [result |-> "Ok", value |-> [t |-> "some", history |-> FromJson(fs[path])]]

\* What `fs::read_to_string(&path).await?` and `serde_json::from_str(..)?`
\* (chat_history_file.rs 158-159, 204-205) give: the failure, or the record
ReadRecord(fs, path) ==
    IF ~Exists(fs, path) THEN [result |-> "Io", value |-> None]
    ELSE IF fs[path] = Malformed \/ ~IsHistoryJson(fs[path])
    THEN [result |-> "Json", value |-> None]
    ELSE [result |-> "Ok", value |-> [t |-> "some", history |-> FromJson(fs[path])]]

\* chat_history_file.rs 158-161
ReadFile(c) ==
    /\ hcalls[c].pc = "read_main"
    /\ LET got == ReadRecord(files, chat_history_path(hcalls[c].session_id))
       IN  hcalls' = [hcalls EXCEPT ![c] = Returns(hcalls[c], got.result, got.value)]
    /\ UNCHANGED <<files, callers, tokenizer, nonHistoryVars>>

\* chat_history_file.rs 166-176: create_split_file is called and runs to
\* the await of fs::write
CreateSplitStart(c) ==
    /\ CanCall(c)
    /\ \E session_id \in SessionIds, msgs \in SplitMessageLists :
          hcalls' = [hcalls EXCEPT ![c] =
                       [IdleHistoryCall EXCEPT
                           !.op = "create_split", !.pc = "write_split",
                           !.session_id = session_id, !.messages = msgs]]
    /\ UNCHANGED <<files, callers, tokenizer, nonHistoryVars>>

\* chat_history_file.rs 197-209: append_to_split_file is called; it awaits
\* fs::read_to_string if the split file exists, else starts from no message
\* and goes on to create_split_file
AppendStart(c) ==
    /\ CanCall(c)
    /\ \E session_id \in SessionIds, msgs \in MessageLists :
          LET call == [IdleHistoryCall EXCEPT
                          !.op = "append_to_split", !.session_id = session_id
                          , !.messages = msgs]
          IN  hcalls' = [hcalls EXCEPT ![c] =
                           IF Exists(files, chat_history_split_path(session_id))
                           THEN [call EXCEPT !.pc = "read_split"]
                           ELSE [call EXCEPT !.pc = "write_split"]]
    /\ UNCHANGED <<files, callers, tokenizer, nonHistoryVars>>

\* chat_history_file.rs 204-206: the split file is read; a failure returns
AppendRead(c) ==
    /\ hcalls[c].pc = "read_split"
    /\ LET call == hcalls[c]
           got == ReadRecord(files, chat_history_split_path(call.session_id))
       IN  hcalls' = [hcalls EXCEPT ![c] =
                        IF got.result = "Ok"
                        THEN [call EXCEPT !.pc = "write_split",
                                          !.existing = got.value.history.messages]
                        ELSE Returns(call, got.result, None)]
    /\ UNCHANGED <<files, callers, tokenizer, nonHistoryVars>>

\* chat_history_file.rs 191 (from 212 too): fs::write creates or truncates
\* the split file
SplitTruncate(c) ==
    /\ hcalls[c].pc = "write_split"
    /\ files' = Truncate(files, chat_history_split_path(hcalls[c].session_id))
    /\ hcalls' = [hcalls EXCEPT ![c].pc = "fill_split"]
    /\ UNCHANGED <<callers, tokenizer, nonHistoryVars>>

\* chat_history_file.rs 211, with the new messages put before the existing
ExtendedInFront(existing, new) == new \o existing

\* chat_history_file.rs 211: `existing_messages.extend(new_messages)`
Extended(existing, new) == existing \o new

\* chat_history_file.rs 178-193: fs::write writes the split record; for
\* create_split_file called on its own `existing` is empty
SplitFill(c) ==
    /\ hcalls[c].pc = "fill_split"
    /\ LET call == hcalls[c]
           path == chat_history_split_path(call.session_id)
           msgs == Extended(call.existing, call.messages)
           history == HistoryRecord(call.session_id, c, msgs,
                          estimate_token_count(msgs, tokenizer), FALSE, "none")
       IN  /\ files' = [files EXCEPT ![path] = ToJson(history)]
           /\ hcalls' = [hcalls EXCEPT ![c] = Returns(call, "Ok", JStr(path))]
    /\ UNCHANGED <<callers, tokenizer, nonHistoryVars>>

\* chat_history_file.rs 224-228, with the split file left alone
AfterMainKeepingSplit(call, fs) == Returns(call, "Ok", None)

\* chat_history_file.rs 224-228: where delete_chat_history goes once it is
\* done with the main file
AfterMain(call, fs) ==
    IF Exists(fs, chat_history_split_path(call.session_id))
    THEN [call EXCEPT !.pc = "remove_split"]
    ELSE Returns(call, "Ok", None)

\* chat_history_file.rs 216-220: delete_chat_history is called
DeleteStart(c) ==
    /\ CanCall(c)
    /\ \E session_id \in SessionIds :
          LET call == [IdleHistoryCall EXCEPT !.op = "delete",
                                              !.session_id = session_id]
          IN  hcalls' = [hcalls EXCEPT ![c] =
                           IF Exists(files, chat_history_path(session_id))
                           THEN [call EXCEPT !.pc = "remove_main"]
                           ELSE AfterMain(call, files)]
    /\ UNCHANGED <<files, callers, tokenizer, nonHistoryVars>>

\* chat_history_file.rs 221-224: fs::remove_file of the main file, which
\* fails if the file is no longer there
DeleteMain(c) ==
    /\ hcalls[c].pc = "remove_main"
    /\ LET call == hcalls[c]
           path == chat_history_path(call.session_id)
       IN  IF Exists(files, path)
           THEN /\ files' = [files EXCEPT ![path] = None]
                /\ hcalls' = [hcalls EXCEPT ![c] = AfterMain(call, files')]
           ELSE /\ hcalls' = [hcalls EXCEPT ![c] = Returns(call, "Io", None)]
                /\ UNCHANGED files
    /\ UNCHANGED <<callers, tokenizer, nonHistoryVars>>

\* chat_history_file.rs 225-228: fs::remove_file of the split file
DeleteSplit(c) ==
    /\ hcalls[c].pc = "remove_split"
    /\ LET call == hcalls[c]
           path == chat_history_split_path(call.session_id)
       IN  IF Exists(files, path)
           THEN /\ files' = [files EXCEPT ![path] = None]
                /\ hcalls' = [hcalls EXCEPT ![c] = Returns(call, "Ok", None)]
           ELSE /\ hcalls' = [hcalls EXCEPT ![c] = Returns(call, "Io", None)]
                /\ UNCHANGED files
    /\ UNCHANGED <<callers, tokenizer, nonHistoryVars>>

(***************************************************************************)
(* Specification of the mention parser: every text up to MaxTextLen        *)
(* characters over MentionAlphabet, then the call.                         *)
(***************************************************************************)
MaxTextLen == 5

MentionAlphabet == {"@", "a", "b", ".", "-", " ", "e-acute"}

TextsUpTo(alphabet, n) == UNION {[1..k -> alphabet] : k \in 0..n}

\* The inputs of the unit tests, chat.rs 435, 441 and 447.
TestBasicTokens ==
    <<"@", "c", "o", "d", "e", "r", " ", "p", "l", "e", "a", "s", "e", " ",
      "c", "h", "e", "c", "k", " ", "@", "p", "l", "a", "n", "n", "e", "r">>

TestEmail ==
    <<"e", "m", "a", "i", "l", " ", "m", "e", " ", "a", "t", " ",
      "t", "e", "s", "t", "@", "e", "x", "a", "m", "p", "l", "e", ".", "c", "o", "m">>

TestDeDupe == <<"@", "a", " ", "@", "a", " ", "@", "b">>

MentionsIdle == text = <<>> /\ mentions = <<>>

CompressIdle == content = <<>> /\ max_chars = 0 /\ compressed = <<>>

\* build_structured_messages has not been called
FullIdle == [session_id |-> "S1", result |-> "none", entries |-> <<>>]

ContextIdle ==
    /\ ctxSession = "S1" /\ ctxResult = "Ok" /\ context = <<>>
    /\ fullContext = FullIdle

TokensIdle ==
    /\ tokenArgs = [shorter |-> <<>>, longer |-> <<>>]
    /\ tokenOut = [shorter |-> U32Zero, longer |-> U32Zero]

\* The calls, numbered in the order in which they are made
CallIds == {1, 2}

\* A call that has not been made
IdleCall ==
    [pc |-> "idle", session_id |-> "S1", sender_type |-> "User",
     sender_id |-> "none", content |-> <<>>, meta_arg |-> None, meta |-> None,
     sender_name |-> "none", ops |-> <<>>, result |-> "none"]

StoreIdle ==
    /\ sessions = [s \in {"S1"} |-> [status |-> "Active", updated_at |-> 0]]
    /\ messages = <<>>
    /\ clock = 0
    /\ calls = [c \in CallIds |-> IdleCall]

InitMentions ==
    /\ text \in TextsUpTo(MentionAlphabet, MaxTextLen)
                \cup {TestBasicTokens, TestEmail, TestDeDupe}
    /\ mentions = <<>>
    /\ pc = "call"
    /\ CompressIdle
    /\ ContextIdle
    /\ TokensIdle
    /\ StoreIdle
    /\ HistoryIdle

ParseMentionsCall ==
    /\ pc = "call"
    /\ pc' = "return"
    /\ mentions' = parse_mentions(text)
    /\ UNCHANGED <<text, compressVars, contextVars, storeVars, calls, historyVars, tokenVars>>

NextMentions == ParseMentionsCall

SpecMentions == InitMentions /\ [][NextMentions]_vars

(***************************************************************************)
(* Specification of the content compressor: every content up to            *)
(* MaxContentLen characters over CompressAlphabet with every budget up to  *)
(* MaxBudget, then the call.                                               *)
(***************************************************************************)
MaxContentLen == 6

MaxBudget == 4

CompressAlphabet == {"a", ".", " ", ","}

InitCompress ==
    /\ content \in TextsUpTo(CompressAlphabet, MaxContentLen)
    /\ max_chars \in 0..MaxBudget
    /\ compressed = <<>>
    /\ pc = "call"
    /\ MentionsIdle
    /\ ContextIdle
    /\ TokensIdle
    /\ StoreIdle
    /\ HistoryIdle

CompressCall ==
    /\ pc = "call"
    /\ pc' = "return"
    /\ compressed' = compress_content(content, max_chars)
    /\ UNCHANGED <<content, max_chars, mentionVars, contextVars, storeVars, calls, historyVars, tokenVars>>

NextCompress == CompressCall

SpecCompress == InitCompress /\ [][NextCompress]_vars

(***************************************************************************)
(* C8  For a budget b >= 1: when content.trim() has at most b characters   *)
(* the result is content.trim(), and compressing that result again with b  *)
(* gives it back; otherwise the result has at most b + Len(Marker)         *)
(* characters, ends with the marker and, the marker removed, is a strict   *)
(* prefix of content.trim().                                               *)
(***************************************************************************)
IsStrictPrefix(p, s) == Len(p) < Len(s) /\ p = SubSeq(s, 1, Len(p))

EndsWithMarker(s) ==
    /\ Len(s) >= Len(Marker)
    /\ SubSeq(s, Len(s) - Len(Marker) + 1, Len(s)) = Marker

WithoutMarker(s) == SubSeq(s, 1, Len(s) - Len(Marker))

C8_CompressFitsOrStrictPrefix ==
    (pc = "return" /\ max_chars >= 1) =>
        IF Len(trim(content)) <= max_chars
        THEN /\ compressed = trim(content)
             /\ compress_content(compressed, max_chars) = compressed
        ELSE /\ Len(compressed) <= max_chars + Len(Marker)
             /\ EndsWithMarker(compressed)
             /\ IsStrictPrefix(WithoutMarker(compressed), trim(content))

\* "a. aaa" with budget 4 has been cut at the blank to "a." plus the marker
C8_Witness ==
    /\ pc = "return"
    /\ content = <<"a", ".", " ", "a", "a", "a">>
    /\ max_chars = 4
    /\ compressed = <<"a", ".">> \o Marker

(***************************************************************************)
(* C9  compress_content never expands content: the result, marker          *)
(* included, has at most as many characters as the input.                  *)
(***************************************************************************)
C9_NeverExpands ==
    (pc = "return" /\ max_chars >= 1) => Len(compressed) <= Len(content)

(***************************************************************************)
(* C6  parse_mentions returns no handle twice, returns the handles in the  *)
(* order in which each first occurs as a mention in the text, and every    *)
(* handle is non-empty and made of ASCII alphanumerics, '_' and '-' only.  *)
(***************************************************************************)
MentionOccurrences(chars, h) ==
    {i \in 1..Len(chars) : StartsMention(chars, i) /\ TakeName(chars, i + 1) = h}

FirstOccurrence(chars, h) ==
    CHOOSE i \in MentionOccurrences(chars, h) :
        \A k \in MentionOccurrences(chars, h) : i <= k

C6_MentionsDistinctInFirstOccurrenceOrder ==
    pc = "return" =>
        /\ \A i, j \in 1..Len(mentions) : i # j => mentions[i] # mentions[j]
        /\ \A i \in 1..Len(mentions) :
              /\ mentions[i] # <<>>
              /\ \A k \in 1..Len(mentions[i]) :
                    \/ mentions[i][k] \in AsciiLetters \cup AsciiDigits
                    \/ mentions[i][k] \in {"_", "-"}
              /\ MentionOccurrences(text, mentions[i]) # {}
        /\ \A i, j \in 1..Len(mentions) :
              i < j => FirstOccurrence(text, mentions[i])
                         < FirstOccurrence(text, mentions[j])

\* "@a @a @b" has been parsed to ["a", "b"]
C6_Witness ==
    /\ pc = "return"
    /\ text = TestDeDupe
    /\ mentions = << <<"a">>, <<"b">> >>

(***************************************************************************)
(* C7  An '@' starts a mention only if it is the first character or the    *)
(* character before it is not alphanumeric, '_', '-' or '.'.               *)
(* C7_Original reads "alphanumeric" as the claim words it (any letter or   *)
(* digit); C7_Amended reads it as ASCII alphanumeric.  Both say that the   *)
(* handles returned are exactly the non-empty handles that follow an '@'   *)
(* which may start a mention.                                              *)
(***************************************************************************)
HandlesAfter(chars, starts) == {TakeName(chars, i + 1) : i \in starts} \ {<<>>}

C7_Original ==
    pc = "return" =>
        Range(mentions) =
            HandlesAfter(text,
                {i \in 1..Len(text) :
                    /\ text[i] = "@"
                    /\ \/ i = 1
                       \/ ~(\/ is_alphanumeric(text[i - 1])
                            \/ text[i - 1] \in {"_", "-", "."})})

C7_Amended ==
    pc = "return" =>
        Range(mentions) =
            HandlesAfter(text,
                {i \in 1..Len(text) :
                    /\ text[i] = "@"
                    /\ \/ i = 1
                       \/ ~(\/ text[i - 1] \in AsciiLetters \cup AsciiDigits
                            \/ text[i - 1] \in {"_", "-", "."})})

\* "email me at test@example.com" has been parsed to no mention
C7_Witness ==
    /\ pc = "return"
    /\ text = TestEmail
    /\ mentions = <<>>

(***************************************************************************)
(* Specification of the context assembler: a store of up to MaxStored      *)
(* rows, as create_message leaves them, then one call.  Row i takes its    *)
(* content from ContentPool and its sender and metadata from SenderPool,   *)
(* both by position, shifted by the store's `shift`; in a `mixed` store    *)
(* every fourth row belongs to the other session.                          *)
(***************************************************************************)
MaxStored == 33

Rep(c, n) == [i \in 1..n |-> c]

\* The lengths are the cases of chat.rs 161-163: under the lower clamp, at
\* it, just above it, between the clamps and above the upper clamp.
ContentPool ==
    << <<"h", "i">>,
       Rep("a", 100),
       Rep("a", 101),
       Rep("a", 50) \o <<" ">> \o Rep("a", 100),
       Rep("a", 1300),
       Rep("a", 79) \o <<".">> \o Rep("a", 200),
       <<" ">> \o Rep("a", 120) \o <<" ">>,
       <<"a">> \o Rep(" ", 150) \o <<"a">> >>

\* sender_type, sender_id and the caller's metadata
SenderPool ==
    << [sender_type |-> "User", sender_id |-> "none", meta |-> None],
       [sender_type |-> "Agent", sender_id |-> "A1",
        meta |-> JObj([k \in {"extra"} |-> JNum(1)])],
       [sender_type |-> "User", sender_id |-> "none",
        meta |-> JObj([k \in {"sender_handle"} |-> JStr("alice")])],
       [sender_type |-> "System", sender_id |-> "none", meta |-> JStr("raw")],
       [sender_type |-> "Agent", sender_id |-> "A2",
        meta |-> JObj([k \in {"sender"} |-> JStr("custom")])] >>

PoolAt(pool, i) == pool[(i % Len(pool)) + 1]

StoredRow(i, shift, mixed) ==
    LET from == PoolAt(SenderPool, i + shift)
        chars == PoolAt(ContentPool, i + shift)
    IN  NewRow(i, IF mixed /\ i % 4 = 0 THEN "S2" ELSE "S1",
               from.sender_type, from.sender_id, chars,
               StampMeta(from.sender_type, from.sender_id, chars,
                         NormalizeMeta(from.meta), AgentName(from.sender_id), i),
               i)

\* A row written by another writer of chat_messages, which stamps nothing:
\* the metadata is the writer's own JSON value, of any type
UnstampedRow(i, shift, mixed) ==
    LET from == PoolAt(SenderPool, i + shift)
        stored == StoredRow(i, shift, mixed)
    IN  [stored EXCEPT !.meta = IF from.meta = None THEN EmptyObj ELSE from.meta]

InitContext ==
    /\ \E n \in 0..MaxStored, shift \in 0..(Len(ContentPool) - 1), mixed \in BOOLEAN,
          stamped \in BOOLEAN :
          messages = [i \in 1..n |-> IF stamped \/ i % 3 = 0
                                     THEN StoredRow(i, shift, mixed)
                                     ELSE UnstampedRow(i, shift, mixed)]
    /\ sessions = [s \in SessionIds |-> [status |-> "Active", updated_at |-> 0]]
    /\ clock = MaxStored
    /\ calls = [c \in CallIds |-> IdleCall]
    /\ pc = "call"
    /\ ContextIdle
    /\ TokensIdle
    /\ MentionsIdle
    /\ CompressIdle
    /\ HistoryIdle

\* chat.rs 104-192; a failing query (chat.rs 108, 109) returns the error
BuildCompactedCall ==
    /\ pc = "call"
    /\ pc' = "return"
    /\ \E session_id \in SessionIds, queries \in {"Ok", "Database"} :
          /\ ctxSession' = session_id
          /\ ctxResult' = queries
          /\ context' = IF queries = "Ok"
                         THEN build_structured_messages_with_compression(
                                  messages, session_id)
                         ELSE <<>>
    /\ UNCHANGED <<fullContext, storeVars, calls, mentionVars, compressVars, historyVars, tokenVars>>

\* chat.rs 349-401, called once the compacted context has been built; a
\* failing query (chat.rs 353, 354) returns the error
BuildFullCall ==
    /\ pc = "return"
    /\ fullContext.result = "none"
    /\ \E session_id \in SessionIds, queries \in {"Ok", "Database"} :
          fullContext' = [session_id |-> session_id,
                   result |-> queries,
                   entries |-> IF queries = "Ok"
                               THEN build_structured_messages(messages, session_id)
                               ELSE <<>>]
    /\ UNCHANGED <<pc, ctxSession, ctxResult, context, storeVars, calls,
                   mentionVars, compressVars, historyVars, tokenVars>>

NextContext == BuildCompactedCall \/ BuildFullCall

SpecContext == InitContext /\ [][NextContext]_vars

Returned == pc = "return" /\ ctxResult = "Ok"

\* The stored row an entry was made from
RowOf(entry) == CHOOSE i \in 1..Len(messages) : messages[i].id = entry.id

(***************************************************************************)
(* C4  For a session of n messages the compacted context has min(n, 30)    *)
(* entries, the session's most recent min(n, 30) messages in ascending     *)
(* creation order; the last min(n, 5) entries have compressed = FALSE and  *)
(* every earlier entry has compressed = TRUE.                              *)
(***************************************************************************)
C4_WindowAndRecencyTiers ==
    Returned =>
        LET rows == find_by_session_id(messages, ctxSession)
            n == Len(rows)
            kept == Min(n, 30)
            full == Min(n, 5)
        IN  /\ Len(context) = kept
            /\ \A j \in 1..kept :
                  /\ context[j].id = rows[n - kept + j].id
                  /\ context[j].compressed = (j <= kept - full)

\* a session of more than 30 messages has been compacted to 30 entries
C4_Witness ==
    /\ Returned
    /\ Len(find_by_session_id(messages, ctxSession)) > 30
    /\ Len(context) = 30
    /\ context[25].compressed /\ ~context[26].compressed

(***************************************************************************)
(* C5  Every entry flagged compressed has a content of at most 500 and,    *)
(* unless the original content was shorter than 100 characters, at least   *)
(* 100 characters, marker included (C5_Original).                          *)
(* C5_Amended: it has at most 500 + Len(Marker) characters and no lower    *)
(* bound; with the budget b = 40% of the original character count,         *)
(* floored and clamped to [100, 500], it is the trimmed original when that *)
(* has at most b characters, and otherwise a strict prefix of it of at     *)
(* most b characters followed by the marker.                               *)
(***************************************************************************)
C5_Original ==
    Returned =>
        \A j \in 1..Len(context) :
            context[j].compressed =>
                LET original == messages[RowOf(context[j])].content
                IN  /\ Len(context[j].content) <= 500
                    /\ Len(original) >= 100 => Len(context[j].content) >= 100

C5_Amended ==
    Returned =>
        \A j \in 1..Len(context) :
            context[j].compressed =>
                LET original == messages[RowOf(context[j])].content
                    b == Min(Max((Len(original) * 2) \div 5, 100), 500)
                    out == context[j].content
                IN  /\ Len(out) <= 500 + Len(Marker)
                    /\ IF Len(trim(original)) <= b
                       THEN out = trim(original)
                       ELSE /\ EndsWithMarker(out)
                            /\ Len(WithoutMarker(out)) <= b
                            /\ IsStrictPrefix(WithoutMarker(out), trim(original))

\* a message of 1300 characters has been compressed to 500 and the marker
C5_Witness ==
    /\ Returned
    /\ \E j \in 1..Len(context) :
          /\ context[j].compressed
          /\ Len(messages[RowOf(context[j])].content) = 1300
          /\ Len(context[j].content) = 500 + Len(Marker)

(***************************************************************************)
(* create_message_with_id (chat.rs 251-347).  A call is suspended at each  *)
(* store operation it awaits (chat.rs 266, 291, 330, 344); the steps of    *)
(* different calls, and the archiving of a session, interleave there.      *)
(* A store operation may fail (sqlx::Error), which `?` returns as          *)
(* ChatServiceError::Database.                                             *)
(***************************************************************************)
\* chat.rs 25-26, with the storage failure reported as a validation failure
FromSqlxErrorAsValidation == "Validation"

\* chat.rs 25-26: `Database(#[from] sqlx::Error)`
FromSqlxError == "Database"

\* chat.rs 260-264, with the check left out
ChecksBeforeLookupNone(sender_type, sender_id) == "continue"

\* chat.rs 260-264: the check made before the first store operation
ChecksBeforeLookup(sender_type, sender_id) ==
    IF sender_type = "Agent" /\ sender_id = "none" THEN "Validation" ELSE "continue"

\* chat.rs 266-283, with the content check made before the status check
ChecksAfterLookupContentFirst(found, content_chars, meta) ==
    IF found = None THEN "SessionNotFound"
    ELSE IF EmptyWithoutAttachments(content_chars, NormalizeMeta(meta))
    THEN "Validation"
    ELSE IF found.status # "Active" THEN "SessionArchived"
    ELSE "continue"

\* chat.rs 266-283: the checks made on the looked-up session, `found` being
\* the Option<ChatSession> that ChatSession::find_by_id returned
ChecksAfterLookup(found, content_chars, meta) ==
    IF found = None THEN "SessionNotFound"
    ELSE IF found.status # "Active" THEN "SessionArchived"
    ELSE IF EmptyWithoutAttachments(content_chars, NormalizeMeta(meta))
    THEN "Validation"
    ELSE "continue"

\* ChatSession::find_by_id: the row, or None
find_session_by_id(rows, session_id) ==
    IF session_id \in DOMAIN rows
    THEN [t |-> "some", status |-> rows[session_id].status]
    ELSE None

Issue(call, op) == [call EXCEPT !.ops = Append(call.ops, op)]

Fail(call, error) == [call EXCEPT !.pc = "done", !.result = error]

\* chat.rs 285-328: the locals the call holds when it awaits the insert
Stamped(call, name, now) ==
    [call EXCEPT !.pc = "create",
                 !.sender_name = name,
                 !.meta = StampMeta(call.sender_type, call.sender_id, call.content,
                                    NormalizeMeta(call.meta_arg), name, now)]

\* The arguments the calls are made with
ContentChoices == {<<" ">>, <<"@", "a", " ", "h", "i">>}

ValidAttachment ==
    JObj([k \in {"id", "name", "size_bytes", "kind", "relative_path"} |->
            IF k = "size_bytes" THEN JNum(1) ELSE JStr(k)])

MetaChoices ==
    {None,
     JStr("raw"),
     JObj([k \in {"attachments"} |-> JArr(<<ValidAttachment>>)]),
     JObj([k \in {"attachments"} |-> JArr(<<JStr("bad")>>)]),
     JObj([k \in {"sender", "structured", "sender_handle"} |->
             IF k = "sender_handle" THEN JStr("alice") ELSE JStr("custom")])}

DbOutcomes == {"Ok", "Error"}

\* chat.rs 251-264: the call is made and runs to its first await
CreateMessageStart(c) ==
    /\ calls[c].pc = "idle"
    /\ \A d \in CallIds : d < c => calls[d].pc # "idle"
    /\ \E session_id \in SessionIds, sender_type \in SenderTypes,
          sender_id \in SenderIds, chars \in ContentChoices, meta \in MetaChoices :
          LET call == [IdleCall EXCEPT !.session_id = session_id,
                                       !.sender_type = sender_type,
                                       !.sender_id = sender_id,
                                       !.content = chars,
                                       !.meta_arg = meta]
              check == ChecksBeforeLookup(sender_type, sender_id)
          IN  calls' = [calls EXCEPT ![c] =
                          IF check = "continue"
                          THEN [call EXCEPT !.pc = "find_session"]
                          ELSE Fail(call, check)]
    /\ UNCHANGED <<storeVars, pc, mentionVars, compressVars, contextVars, historyVars, tokenVars>>

\* chat.rs 266-283 (and 285-328 for a sender that is no agent): the session
\* lookup completes and the call runs to its next await
FindSession(c) ==
    /\ calls[c].pc = "find_session"
    /\ \E db \in DbOutcomes :
          LET call == Issue(calls[c], "find_session")
              check == ChecksAfterLookup(
                           find_session_by_id(sessions, call.session_id),
                           call.content, call.meta_arg)
          IN  calls' = [calls EXCEPT ![c] =
                          IF db = "Error" THEN Fail(call, FromSqlxError)
                          ELSE IF check # "continue" THEN Fail(call, check)
                          ELSE IF call.sender_type = "Agent"
                          THEN [call EXCEPT !.pc = "find_agent"]
                          ELSE Stamped(call, "none", clock)]
    /\ UNCHANGED <<storeVars, pc, mentionVars, compressVars, contextVars, historyVars, tokenVars>>

\* chat.rs 289-328: the agent lookup completes
FindAgent(c) ==
    /\ calls[c].pc = "find_agent"
    /\ \E db \in DbOutcomes :
          LET call == Issue(calls[c], "find_agent")
          IN  calls' = [calls EXCEPT ![c] =
                          IF db = "Error" THEN Fail(call, FromSqlxError)
                          ELSE Stamped(call, AgentName(call.sender_id), clock)]
    /\ UNCHANGED <<storeVars, pc, mentionVars, compressVars, contextVars, historyVars, tokenVars>>

\* chat.rs 330-342: ChatMessage::create completes; the message identity is
\* the call's own (Uuid::new_v4, chat.rs 246)
InsertMessage(c) ==
    /\ calls[c].pc = "create"
    /\ \E db \in DbOutcomes :
          LET call == Issue(calls[c], "insert")
          IN  IF db = "Error"
              THEN /\ calls' = [calls EXCEPT ![c] = Fail(call, FromSqlxError)]
                   /\ UNCHANGED <<messages, clock>>
              ELSE /\ messages' = Append(messages,
                                     NewRow(c, call.session_id, call.sender_type,
                                            call.sender_id, call.content,
                                            call.meta, clock + 1))
                   /\ clock' = clock + 1
                   /\ calls' = [calls EXCEPT ![c] = [call EXCEPT !.pc = "touch"]]
    /\ UNCHANGED <<sessions, pc, mentionVars, compressVars, contextVars, historyVars, tokenVars>>

\* chat.rs 344-346: ChatSession::touch completes and the call returns
TouchSession(c) ==
    /\ calls[c].pc = "touch"
    /\ \E db \in DbOutcomes :
          LET call == Issue(calls[c], "touch")
          IN  IF db = "Error"
              THEN /\ calls' = [calls EXCEPT ![c] = Fail(call, FromSqlxError)]
                   /\ UNCHANGED <<sessions, clock>>
              ELSE /\ sessions' =
                        IF call.session_id \in DOMAIN sessions
                        THEN [sessions EXCEPT ![call.session_id].updated_at = clock + 1]
                        ELSE sessions
                   /\ clock' = clock + 1
                   /\ calls' = [calls EXCEPT ![c] =
                                   [call EXCEPT !.pc = "done", !.result = "Ok"]]
    /\ UNCHANGED <<messages, pc, mentionVars, compressVars, contextVars, historyVars, tokenVars>>

\* Another component archives the session (ChatSessionStatus::Archived)
ArchiveSession(s) ==
    /\ s \in DOMAIN sessions
    /\ sessions[s].status = "Active"
    /\ sessions' = [sessions EXCEPT ![s].status = "Archived"]
    /\ UNCHANGED <<messages, clock, calls, pc, mentionVars, compressVars, contextVars, historyVars, tokenVars>>

\* Session "S1" exists, Active or Archived; session "S2" does not exist.
Init ==
    /\ \E status \in {"Active", "Archived"} :
          sessions = [s \in {"S1"} |-> [status |-> status, updated_at |-> 0]]
    /\ messages = <<>>
    /\ clock = 0
    /\ calls = [c \in CallIds |-> IdleCall]
    /\ pc = "call"
    /\ MentionsIdle
    /\ CompressIdle
    /\ ContextIdle
    /\ TokensIdle
    /\ HistoryIdle

Next ==
    \/ \E c \in CallIds : CreateMessageStart(c)
    \/ \E c \in CallIds : FindSession(c)
    \/ \E c \in CallIds : FindAgent(c)
    \/ \E c \in CallIds : InsertMessage(c)
    \/ \E c \in CallIds : TouchSession(c)
    \/ \E s \in SessionIds : ArchiveSession(s)

Spec == Init /\ [][Next]_vars

Done(c) == calls[c].pc = "done"

RowsOfCall(c) == {i \in 1..Len(messages) : messages[i].id = c}

(***************************************************************************)
(* C1  A call that fails at a validation step (Validation,                 *)
(* SessionNotFound, SessionArchived) has changed nothing in the store: it  *)
(* has issued neither the insert nor the touch, and no row of it exists.   *)
(***************************************************************************)
C1_ValidationFailureLeavesStoreUnchanged ==
    \A c \in CallIds :
        (Done(c) /\ calls[c].result \in {"Validation", "SessionNotFound",
                                          "SessionArchived"}) =>
            /\ RowsOfCall(c) = {}
            /\ \A i \in 1..Len(calls[c].ops) : calls[c].ops[i] \notin {"insert", "touch"}

\* while another call has inserted its message and touched the session, a
\* call has failed on empty content after its session lookup
C1_Witness ==
    \E c, d \in CallIds :
        /\ Done(c) /\ calls[c].result = "Validation"
        /\ calls[c].ops = <<"find_session">>
        /\ Done(d) /\ calls[d].result = "Ok"
        /\ Len(messages) = 1

(***************************************************************************)
(* C2  A call on a session that exists and is Archived fails with          *)
(* SessionArchived (C2_Original: whatever the sender kind and identity,    *)
(* at whichever step the call ends).                                       *)
(* C2_Amended: a call whose session lookup succeeds and finds the session  *)
(* Archived ends there with SessionArchived, never with SessionNotFound    *)
(* or Validation, whatever its content and metadata; a call with sender    *)
(* kind Agent and no sender identity never gets to the lookup.             *)
(***************************************************************************)
OnArchived(c) ==
    /\ calls[c].session_id \in DOMAIN sessions
    /\ sessions[calls[c].session_id].status = "Archived"

C2_Original ==
    [][\A c \in CallIds :
          (~Done(c) /\ calls'[c].pc = "done" /\ calls'[c].session_id \in DOMAIN sessions
             /\ sessions[calls'[c].session_id].status = "Archived")
          => calls'[c].result = "SessionArchived"]_vars

C2_Amended ==
    [][\A c \in CallIds :
          (calls[c].pc = "find_session" /\ calls'[c] # calls[c] /\ OnArchived(c)
             /\ calls'[c].result # "Database")
          => /\ calls'[c].pc = "done"
             /\ calls'[c].result = "SessionArchived"
             /\ ~(calls[c].sender_type = "Agent" /\ calls[c].sender_id = "none")]_vars

\* a call with empty content and no attachments on the archived session has
\* failed with SessionArchived
C2_Witness ==
    \E c \in CallIds :
        /\ Done(c) /\ calls[c].result = "SessionArchived"
        /\ calls[c].content = <<" ">> /\ calls[c].meta_arg = None
        /\ OnArchived(c)

(***************************************************************************)
(* C3  A call with sender kind Agent and no sender identity fails with     *)
(* Validation before it has issued any store operation, whatever the       *)
(* state of its session.                                                   *)
(***************************************************************************)
C3_AgentWithoutIdentityFailsBeforeStore ==
    \A c \in CallIds :
        (calls[c].pc # "idle" /\ calls[c].sender_type = "Agent"
           /\ calls[c].sender_id = "none") =>
            /\ Done(c)
            /\ calls[c].result = "Validation"
            /\ calls[c].ops = <<>>
            /\ RowsOfCall(c) = {}

\* such calls have failed on the existing session, archived, and on the
\* missing one
C3_Witness ==
    /\ \A c \in CallIds :
          /\ Done(c) /\ calls[c].result = "Validation" /\ calls[c].ops = <<>>
          /\ calls[c].sender_type = "Agent" /\ calls[c].sender_id = "none"
    /\ calls[1].session_id = "S1" /\ sessions["S1"].status = "Archived"
    /\ calls[2].session_id = "S2"

(***************************************************************************)
(* Specification of the history file store with serialized callers: up to  *)
(* MaxHistoryCalls calls, one at a time, on a directory that holds no file *)
(* at first or holds files of session "S1" that are not history records.   *)
(***************************************************************************)
\* A JSON text that is no ChatHistoryFile: it has no "messages"
ForeignJson == JObj([k \in {"session_id"} |-> JStr("S1")])

InitialFiles ==
    {[path \in HistoryPaths |-> None],
     [path \in HistoryPaths |->
        IF path = chat_history_path("S1") THEN ForeignJson
        ELSE IF path = chat_history_split_path("S1") THEN Malformed
        ELSE None]}

InitHistory ==
    /\ files \in InitialFiles
    /\ hcalls = [c \in HistoryCallIds |-> IdleHistoryCall]
    /\ callers = "serialized"
    /\ tokenizer \in {"Ok", "Err"}
    /\ pc = "call"
    /\ MentionsIdle
    /\ CompressIdle
    /\ ContextIdle
    /\ TokensIdle
    /\ StoreIdle

NextHistory ==
    \/ \E c \in HistoryCallIds : WriteStart(c)
    \/ \E c \in HistoryCallIds : WriteTruncate(c)
    \/ \E c \in HistoryCallIds : WriteFill(c)
    \/ \E c \in HistoryCallIds : ReadStart(c)
    \/ \E c \in HistoryCallIds : ReadFile(c)
    \/ \E c \in HistoryCallIds : CreateSplitStart(c)
    \/ \E c \in HistoryCallIds : AppendStart(c)
    \/ \E c \in HistoryCallIds : AppendRead(c)
    \/ \E c \in HistoryCallIds : SplitTruncate(c)
    \/ \E c \in HistoryCallIds : SplitFill(c)
    \/ \E c \in HistoryCallIds : DeleteStart(c)
    \/ \E c \in HistoryCallIds : DeleteMain(c)
    \/ \E c \in HistoryCallIds : DeleteSplit(c)

SpecHistory == InitHistory /\ [][NextHistory]_vars

\* Call i is a write_chat_history that returned Ok
WroteRecord(i) ==
    /\ hcalls[i].op = "write"
    /\ hcalls[i].pc = "done"
    /\ hcalls[i].result = "Ok"

\* Call j is a read_chat_history that returned, after call i, on the session
\* of call i, with no call on that session made between the two
ReadsBack(i, j) ==
    /\ i < j
    /\ hcalls[j].op = "read"
    /\ hcalls[j].pc = "done"
    /\ hcalls[j].session_id = hcalls[i].session_id
    /\ \A k \in HistoryCallIds :
          (i < k /\ k < j) => hcalls[k].session_id # hcalls[i].session_id

\* What call j returned is a record with what call i was given
SameRecord(i, j) ==
    /\ hcalls[j].result = "Ok"
    /\ hcalls[j].value # None
    /\ hcalls[j].value.history.session_id = hcalls[i].session_id
    /\ hcalls[j].value.history.messages = hcalls[i].messages
    /\ hcalls[j].value.history.metadata.compression_applied
           = hcalls[i].compression_applied
    /\ hcalls[j].value.history.metadata.split_file = hcalls[i].split_file

\* C10: with serialized callers, a read_chat_history of a session that
\* follows a successful write_chat_history of that session, with no other
\* call on the session in between, returns a record whose session_id,
\* messages (sender, content, timestamp, in order), compression_applied and
\* split_file are the written ones; so after two writes it is the later
\* write's record that is read, with nothing of the earlier one.
C10_ReadReturnsLastWrite ==
    \A i, j \in HistoryCallIds :
        (WroteRecord(i) /\ ReadsBack(i, j)) => SameRecord(i, j)

\* Two writes of the same session, the first with a split_file and two
\* messages, the second with none and one message, and then a read that
\* returns the second
C10_Witness ==
    /\ WroteRecord(1)
    /\ WroteRecord(2)
    /\ hcalls[1].session_id = hcalls[2].session_id
    /\ hcalls[1].split_file # "none"
    /\ hcalls[1].messages = <<MessageB, MessageA>>
    /\ hcalls[2].split_file = "none"
    /\ hcalls[2].messages = <<MessageA>>
    /\ ReadsBack(2, 3)
    /\ SameRecord(2, 3)

\* The calls made so far that read or change the split file of session s
SplitCallsOn(s) ==
    {c \in HistoryCallIds :
        /\ hcalls[c].op \in {"create_split", "append_to_split", "delete"}
        /\ hcalls[c].session_id = s}

\* Every call made so far on the split file of s is an append_to_split_file
\* that returned Ok, and there is one
OnlyAppendsDone(s) ==
    /\ SplitCallsOn(s) # {}
    /\ \A c \in SplitCallsOn(s) :
          /\ hcalls[c].op = "append_to_split"
          /\ hcalls[c].pc = "done"
          /\ hcalls[c].result = "Ok"

\* The batches given to the calls of SplitCallsOn(s), joined in call order
BatchesInCallOrder(s) ==
    LET RECURSIVE Join(_)
        Join(c) == IF c > MaxHistoryCalls THEN <<>>
                   ELSE IF c \in SplitCallsOn(s) THEN hcalls[c].messages \o Join(c + 1)
                   ELSE Join(c + 1)
    IN  Join(1)

\* The messages of the record the split file of s holds
SplitMessages(s) == FromJson(files[chat_history_split_path(s)]).messages

\* C11: with serialized callers and no readable split file at the start
\* (InitialFiles holds none), when the only calls made on a session's split
\* file are append_to_split_file calls that all returned Ok, the file holds
\* a record whose messages are the appended batches joined in call order.
C11_AppendsConcatenateInCallOrder ==
    \A s \in SessionIds :
        OnlyAppendsDone(s) =>
            /\ IsHistoryJson(files[chat_history_split_path(s)])
            /\ SplitMessages(s) = BatchesInCallOrder(s)

\* <<MessageA>> and then <<MessageB, MessageA>> have been appended to the
\* split file of "S2", which now holds the three messages in that order
C11_Witness ==
    /\ OnlyAppendsDone("S2")
    /\ SplitCallsOn("S2") = {1, 2}
    /\ hcalls[1].messages = <<MessageA>>
    /\ hcalls[2].messages = <<MessageB, MessageA>>
    /\ SplitMessages("S2") = <<MessageA, MessageB, MessageA>>

(***************************************************************************)
(* Specification of the token estimator: estimate_token_count is applied   *)
(* to a list of up to MaxEstimated messages and to the same list with the  *)
(* content of one message grown.  With the tokenizer loaded only the empty *)
(* list is estimated, for which the tokenizer is not run.                  *)
(***************************************************************************)
MaxEstimated == 2

\* Byte lengths of a sender: "" and "system"
SenderSizes == {SmallSize(0), SmallSize(6)}

\* Byte lengths of a content: none, a few bytes, some gigabytes, and the
\* lengths for which the total is one byte short of 3 * 2^32, just 3 * 2^32
\* and one byte more
ContentSizes ==
    {SmallSize(0), SmallSize(1), SmallSize(2), SmallSize(4),
     [hi |-> 2048, lo |-> 0],
     [hi |-> 4095, lo |-> SizeLimb - 3],
     [hi |-> 4095, lo |-> SizeLimb - 2],
     [hi |-> 4095, lo |-> SizeLimb - 1]}

MessageSizes == [sender : SenderSizes, content : ContentSizes]

SizeLists == UNION {[1..n -> MessageSizes] : n \in 0..MaxEstimated}

\* `shorter` with the content of message i grown to `grown`
GrownAt(shorter, i, grown) == [shorter EXCEPT ![i].content = grown]

InitTokens ==
    /\ tokenizer \in {"Ok", "Err"}
    /\ \E shorter \in SizeLists :
          \/ /\ shorter = <<>>
             /\ tokenArgs = [shorter |-> shorter, longer |-> shorter]
          \/ /\ tokenizer = "Err"
             /\ \E i \in 1..Len(shorter), grown \in ContentSizes :
                   /\ SizeLess(shorter[i].content, grown)
                   /\ tokenArgs = [shorter |-> shorter,
                                   longer |-> GrownAt(shorter, i, grown)]
    /\ tokenOut = [shorter |-> U32Zero, longer |-> U32Zero]
    /\ files = [path \in HistoryPaths |-> None]
    /\ hcalls = [c \in HistoryCallIds |-> IdleHistoryCall]
    /\ callers = "serialized"
    /\ pc = "call"
    /\ MentionsIdle
    /\ CompressIdle
    /\ ContextIdle
    /\ StoreIdle

\* chat_history_file.rs 84-100 on the byte lengths of the texts: the
\* fallback if the tokenizer does not load, else the tokens counted, none
\* for the empty list
EstimateOnSizes(sizes, loaded) ==
    IF loaded = "Ok" THEN U32Zero ELSE FallbackOnSizes(sizes)

EstimateCall ==
    /\ pc = "call"
    /\ pc' = "return"
    /\ tokenOut' = [shorter |-> EstimateOnSizes(tokenArgs.shorter, tokenizer),
                    longer |-> EstimateOnSizes(tokenArgs.longer, tokenizer)]
    /\ UNCHANGED <<tokenArgs, mentionVars, compressVars, contextVars, storeVars,
                   calls, historyVars>>

NextTokens == EstimateCall

SpecTokens == InitTokens /\ [][NextTokens]_vars

\* C12: the estimate of the empty list is 0, with the tokenizer and with
\* the fallback, and the fallback's estimate does not decrease when the
\* content of one message grows.
C12_EmptyIsZeroAndFallbackMonotone ==
    pc = "return" =>
        /\ tokenArgs.shorter = <<>> => tokenOut.shorter = U32Zero
        /\ tokenizer = "Err" => U32Leq(tokenOut.shorter, tokenOut.longer)

\* Call c is a delete_chat_history that returned
Deleted(c) == hcalls[c].op = "delete" /\ hcalls[c].pc = "done"

\* No call after call c has been made on the session of call c
LastOnSession(c) ==
    \A k \in HistoryCallIds :
        (k > c /\ hcalls[k].pc # "idle") => hcalls[k].session_id # hcalls[c].session_id

\* Call j is the first call made on the session of call c after call c,
\* and has returned
NextOnSession(c, j) ==
    /\ c < j
    /\ hcalls[j].pc = "done"
    /\ hcalls[j].session_id = hcalls[c].session_id
    /\ \A k \in HistoryCallIds :
          (c < k /\ k < j) => hcalls[k].session_id # hcalls[c].session_id

\* C13: with serialized callers, delete_chat_history returns Ok whichever of
\* the session's two files exist; until the next call on the session
\* neither file exists; a read_chat_history that comes next returns Ok(None)
\* and a delete_chat_history that comes next returns Ok.
C13_DeleteSucceedsAndLeavesNoFile ==
    \A c \in HistoryCallIds :
        Deleted(c) =>
            /\ hcalls[c].result = "Ok"
            /\ LastOnSession(c) =>
                  /\ ~Exists(files, chat_history_path(hcalls[c].session_id))
                  /\ ~Exists(files, chat_history_split_path(hcalls[c].session_id))
            /\ \A j \in HistoryCallIds :
                  (NextOnSession(c, j) /\ hcalls[j].op \in {"read", "delete"}) =>
                      hcalls[j].result = "Ok" /\ hcalls[j].value = None

\* "S1" had both files; it was deleted, then read, then deleted again
C13_Witness ==
    /\ Deleted(1) /\ Deleted(3)
    /\ hcalls[1].session_id = "S1"
    /\ hcalls[2].op = "read"
    /\ NextOnSession(1, 2)
    /\ hcalls[2].result = "Ok" /\ hcalls[2].value = None
    /\ NextOnSession(2, 3)
    /\ hcalls[3].result = "Ok"
    /\ ~Exists(files, chat_history_path("S1"))
    /\ ~Exists(files, chat_history_split_path("S1"))

\* Call c returns in this step
ReturnsNow(c) == hcalls[c].pc # "done" /\ hcalls'[c].pc = "done"

\* Call c reads the split file for append_to_split_file in this step
ReadsSplitNow(c) == hcalls[c].pc = "read_split" /\ hcalls'[c].pc # "read_split"

\* C14: with serialized callers, a read_chat_history returns Ok(None)
\* exactly when the main file does not exist as it returns; on a main file
\* that does not deserialize it returns the Json failure and leaves every
\* file as it is, and on one that does it returns Ok(Some(record)); an
\* append_to_split_file that reads a split file that does not deserialize
\* returns the Json failure and leaves every file as it is.
C14_MalformedIsHardFailure ==
    [][\A c \in HistoryCallIds :
         /\ (ReturnsNow(c) /\ hcalls'[c].op = "read") =>
               LET path == chat_history_path(hcalls'[c].session_id)
               IN  /\ (hcalls'[c].result = "Ok" /\ hcalls'[c].value = None)
                        <=> ~Exists(files, path)
                   /\ Unreadable(files, path) =>
                         hcalls'[c].result = "Json" /\ files' = files
                   /\ (Exists(files, path) /\ ~Unreadable(files, path)) =>
                         /\ hcalls'[c].result = "Ok"
                         /\ hcalls'[c].value # None
                         /\ files' = files
         /\ (ReadsSplitNow(c)
               /\ Unreadable(files, chat_history_split_path(hcalls[c].session_id))) =>
               /\ hcalls'[c].pc = "done"
               /\ hcalls'[c].result = "Json"
               /\ files' = files
      ]_vars

\* The main file of "S1" is JSON but no ChatHistoryFile and its split file
\* is not JSON: a read and an append have both returned the Json failure
\* and the two files are as they were
C14_Witness ==
    /\ hcalls[1].op = "read" /\ hcalls[1].session_id = "S1"
    /\ hcalls[1].pc = "done" /\ hcalls[1].result = "Json"
    /\ hcalls[2].op = "append_to_split" /\ hcalls[2].session_id = "S1"
    /\ hcalls[2].pc = "done" /\ hcalls[2].result = "Json"
    /\ files[chat_history_path("S1")] = ForeignJson
    /\ files[chat_history_split_path("S1")] = Malformed

(***************************************************************************)
(* Specification of the history file store with concurrent callers: the    *)
(* same calls, each made whether or not another is running; the module has *)
(* no lock, so the steps of running calls interleave at their awaits.      *)
(***************************************************************************)
InitHistoryRace ==
    /\ files \in InitialFiles
    /\ hcalls = [c \in HistoryCallIds |-> IdleHistoryCall]
    /\ callers = "concurrent"
    /\ tokenizer = "Ok"
    /\ pc = "call"
    /\ MentionsIdle
    /\ CompressIdle
    /\ ContextIdle
    /\ TokensIdle
    /\ StoreIdle

SpecHistoryRace == InitHistoryRace /\ [][NextHistory]_vars

\* Calls i and j are append_to_split_file calls on one session that read
\* the same content of the split file
ReadTheSame(i, j) ==
    /\ i # j
    /\ hcalls[i].op = "append_to_split" /\ hcalls[j].op = "append_to_split"
    /\ hcalls[i].session_id = hcalls[j].session_id
    /\ hcalls[i].pc = "done" /\ hcalls[j].pc = "done"
    /\ hcalls[i].result = "Ok" /\ hcalls[j].result = "Ok"
    /\ hcalls[i].existing = hcalls[j].existing

\* C15: with concurrent callers, when the only calls made on a session's
\* split file are append_to_split_file calls that all returned Ok, the file
\* holds what one of them read followed by the batch of that one: each call
\* rewrites the whole file from its own read.  So when two of them read the
\* same content, the file lacks the batch of one.
C15_LastRewriteWins ==
    \A s \in SessionIds :
        OnlyAppendsDone(s) =>
            /\ IsHistoryJson(files[chat_history_split_path(s)])
            /\ \E w \in SplitCallsOn(s) :
                  SplitMessages(s) = hcalls[w].existing \o hcalls[w].messages
            /\ \A i, j \in SplitCallsOn(s) :
                  ReadTheSame(i, j) =>
                      Len(SplitMessages(s)) < Len(BatchesInCallOrder(s))

\* A lost update: after <<MessageA>> was appended to the split file of
\* "S2", two calls both read it, one appending <<MessageA>> and the other
\* <<MessageB, MessageA>>; the file holds three messages, not four
C15_Witness ==
    /\ OnlyAppendsDone("S2")
    /\ SplitCallsOn("S2") = {1, 2, 3}
    /\ ReadTheSame(2, 3)
    /\ hcalls[2].existing = <<MessageA>>
    /\ hcalls[2].messages = <<MessageA>>
    /\ hcalls[3].messages = <<MessageB, MessageA>>
    /\ SplitMessages("S2") = <<MessageA, MessageB, MessageA>>

\* Call c inserts its message row in this step
InsertsNow(c) ==
    /\ Len(messages') = Len(messages) + 1
    /\ messages'[Len(messages')].id = c

\* C16: no step inserts a message row of a session whose status is
\* Archived as the row is inserted.
C16_NoInsertWhileArchived ==
    [][\A c \in CallIds :
         InsertsNow(c) =>
             /\ calls[c].session_id \in DOMAIN sessions
             /\ sessions[calls[c].session_id].status = "Active"
      ]_vars

\* The source indices in [b/2, b) of the characters of `chars` that are in
\* `class` ("sentence" or "word")
InRange(chars, b, class) ==
    {i \in (b \div 2)..(b - 1) :
        /\ i < Len(chars)
        /\ IF class = "sentence" THEN IsSentenceEnd(chars[i + 1])
           ELSE IsWordBoundary(chars[i + 1])}

\* The break the order of preference gives: after the last sentence end of
\* the range if there is one, else at the last whitespace or comma of the
\* range if there is one, else at b
PreferredBreak(chars, b) ==
    IF InRange(chars, b, "sentence") # {}
    THEN Highest(InRange(chars, b, "sentence")) + 1
    ELSE IF InRange(chars, b, "word") # {}
    THEN Highest(InRange(chars, b, "word"))
    ELSE b

\* C17: when the trimmed content is longer than the budget b,
\* compress_content returns the content up to the preferred break (after
\* the last sentence end in [b/2, b), position b - 1 included; else at the
\* last whitespace or comma there; else at b), trimmed, and the marker.
C17_SentenceEndPreferred ==
    (pc = "return" /\ max_chars >= 1 /\ Len(trim(content)) > max_chars) =>
        compressed =
            trim(SubSeq(trim(content), 1, PreferredBreak(trim(content), max_chars)))
                \o Marker

\* C18: a call that has returned a failure, whichever it is, has no message
\* row in the store.
C18_FailureLeavesNoMessage ==
    \A c \in CallIds :
        (Done(c) /\ calls[c].result # "Ok") => RowsOfCall(c) = {}

\* The row call c inserted
RowOfCall(c) == messages[CHOOSE i \in RowsOfCall(c) : TRUE]

\* The fresh snapshot: its content and mentions are those of the row
FreshSnapshot(row) ==
    LET structured == Get(row.meta, "structured")
    IN  /\ structured.t = "object"
        /\ Get(structured, "content") = JText(row.content)
        /\ Get(structured, "mentions") =
               JArr([i \in 1..Len(parse_mentions(row.content)) |->
                        JText(parse_mentions(row.content)[i])])
        /\ row.mentions = parse_mentions(row.content)

\* C19: the metadata stored by a call that returned Ok has the caller's
\* "sender" if the caller's metadata (made an object) had one and the
\* computed sender block if not, has under "structured" a fresh snapshot
\* with the stored content and its mentions whatever the caller put there,
\* and has every other key of the caller's metadata with its value, and no
\* further key.
C19_SenderKeptStructuredReplaced ==
    \A c \in CallIds :
        (Done(c) /\ calls[c].result = "Ok") =>
            /\ RowsOfCall(c) # {}
            /\ LET row == RowOfCall(c)
                   given == NormalizeMeta(calls[c].meta_arg)
               IN  /\ row.content = calls[c].content
                   /\ row.meta.t = "object"
                   /\ Get(row.meta, "sender") =
                         IF Get(given, "sender") # None THEN Get(given, "sender")
                         ELSE SenderDescriptor(calls[c].sender_type, calls[c].sender_id,
                                               SenderHandle(given), calls[c].sender_name)
                   /\ FreshSnapshot(row)
                   /\ DOMAIN row.meta.v = DOMAIN given.v \cup {"sender", "structured"}
                   /\ \A k \in DOMAIN given.v \ {"sender", "structured"} :
                         row.meta.v[k] = given.v[k]

\* A call given metadata with its own "sender", "structured" and
\* "sender_handle" has returned Ok: the stored "sender" and "sender_handle"
\* are the caller's, the stored "structured" is not
C19_Witness ==
    \E c \in CallIds :
        /\ Done(c) /\ calls[c].result = "Ok"
        /\ Get(NormalizeMeta(calls[c].meta_arg), "sender") = JStr("custom")
        /\ Get(NormalizeMeta(calls[c].meta_arg), "structured") = JStr("custom")
        /\ Get(RowOfCall(c).meta, "sender") = JStr("custom")
        /\ Get(RowOfCall(c).meta, "sender_handle") = JStr("alice")
        /\ Get(RowOfCall(c).meta, "structured") # JStr("custom")
        /\ FreshSnapshot(RowOfCall(c))

\* Call c has returned, and its session lookup had succeeded and found the
\* session Active (its sender passed the check made before the lookup)
ReturnedPastLookup(c) ==
    /\ Done(c)
    /\ calls[c].ops # <<>>
    /\ calls[c].result \notin {"SessionNotFound", "SessionArchived"}
    /\ ~(calls[c].result = "Database" /\ calls[c].ops = <<"find_session">>)

\* The caller's metadata is an object with a list of at least one entry
\* under "attachments"
HoldsAttachmentList(meta) ==
    /\ meta # None
    /\ meta.t = "object"
    /\ "attachments" \in DOMAIN meta.v
    /\ meta.v["attachments"].t = "array"
    /\ Len(meta.v["attachments"].v) >= 1

\* ... and every entry of the list is an attachment descriptor
HoldsAttachments(meta) ==
    /\ HoldsAttachmentList(meta)
    /\ \A i \in 1..Len(meta.v["attachments"].v) :
          IsAttachmentMeta(meta.v["attachments"].v[i])

\* C20 as stated: on an Active session with a valid sender the call fails
\* with Validation exactly when the trimmed content is empty and the
\* metadata holds no attachments list with at least one entry.
C20_Original ==
    \A c \in CallIds :
        ReturnedPastLookup(c) =>
            (calls[c].result = "Validation"
                <=> (trim(calls[c].content) = <<>>
                       /\ ~HoldsAttachmentList(calls[c].meta_arg)))

\* C20 amended: ... exactly when the trimmed content is empty and the
\* metadata holds no attachments list of at least one entry all of whose
\* entries are attachment descriptors; so empty content with non-object
\* metadata fails, and content that is not empty when trimmed does not.
C20_Amended ==
    \A c \in CallIds :
        ReturnedPastLookup(c) =>
            /\ calls[c].result = "Validation"
                  <=> (trim(calls[c].content) = <<>>
                         /\ ~HoldsAttachments(calls[c].meta_arg))
            /\ (trim(calls[c].content) = <<>> /\ calls[c].meta_arg # None
                   /\ calls[c].meta_arg.t # "object") =>
                  calls[c].result = "Validation"

\* Blank content with an attachments list whose one entry is no attachment
\* descriptor has failed with Validation, and blank content with a list of
\* one attachment descriptor has not
C20_Witness ==
    \E c, d \in CallIds :
        /\ ReturnedPastLookup(c) /\ ReturnedPastLookup(d)
        /\ trim(calls[c].content) = <<>> /\ trim(calls[d].content) = <<>>
        /\ HoldsAttachmentList(calls[c].meta_arg)
        /\ ~HoldsAttachments(calls[c].meta_arg)
        /\ calls[c].result = "Validation"
        /\ HoldsAttachments(calls[d].meta_arg)
        /\ calls[d].result = "Ok"

\* The stored metadata defines "sender"
DefinesSender(meta) == meta.t = "object" /\ "sender" \in DOMAIN meta.v

\* C21: of the entries build_structured_messages_with_compression returns,
\* one with compressed = TRUE has as metadata an object with no key but
\* "sender", which it has, with the stored value, exactly when the stored
\* metadata defines "sender"; one with compressed = FALSE has the stored
\* content and the stored metadata.
C21_CompressedMetaIsSenderOnly ==
    Returned =>
        \A j \in 1..Len(context) :
            LET entry == context[j]
                row == messages[RowOf(entry)]
            IN  IF entry.compressed
                THEN /\ entry.meta.t = "object"
                     /\ DOMAIN entry.meta.v \subseteq {"sender"}
                     /\ "sender" \in DOMAIN entry.meta.v <=> DefinesSender(row.meta)
                     /\ DefinesSender(row.meta) =>
                           entry.meta.v["sender"] = row.meta.v["sender"]
                ELSE /\ entry.content = row.content
                     /\ entry.meta = row.meta

\* Among the entries returned are a compressed one whose stored metadata
\* had "sender" and other keys, a compressed one whose stored metadata had
\* no "sender" and some other key, and one that is not compressed
C21_Witness ==
    /\ Returned
    /\ \E j, k, l \in 1..Len(context) :
          /\ context[j].compressed
          /\ DefinesSender(messages[RowOf(context[j])].meta)
          /\ DOMAIN messages[RowOf(context[j])].meta.v # {"sender"}
          /\ DOMAIN context[j].meta.v = {"sender"}
          /\ context[k].compressed
          /\ messages[RowOf(context[k])].meta.t = "object"
          /\ DOMAIN messages[RowOf(context[k])].meta.v = {"extra"}
          /\ context[k].meta = EmptyObj
          /\ ~context[l].compressed
          /\ context[l].meta = messages[RowOf(context[l])].meta

FullReturned == fullContext.result = "Ok"

\* The label of a stored message: for a User the metadata's sender_handle
\* if it is a string, else "user"; for an Agent the directory's name for the
\* identity, else the identity, else "agent"; for System "system"
LabelOf(row) ==
    CASE row.sender_type = "User" ->
            IF /\ row.meta.t = "object"
               /\ "sender_handle" \in DOMAIN row.meta.v
               /\ row.meta.v["sender_handle"].t = "string"
            THEN row.meta.v["sender_handle"].v
            ELSE "user"
      [] row.sender_type = "Agent" ->
            IF row.sender_id \in DOMAIN AgentDirectory THEN AgentDirectory[row.sender_id]
            ELSE IF row.sender_id # "none" THEN row.sender_id
            ELSE "agent"
      [] OTHER -> "system"

\* C22: build_structured_messages returns one entry for each stored message
\* of the session, in ascending order of creation, none dropped whatever
\* their number, each with the stored content and metadata and with the
\* label of LabelOf, which is also the label the entry of the same message
\* has in what build_structured_messages_with_compression returned for the
\* session.
C22_FullContextKeepsEveryMessage ==
    FullReturned =>
        LET rows == find_by_session_id(messages, fullContext.session_id)
            entries == fullContext.entries
        IN  /\ Len(entries) = Len(rows)
            /\ \A j \in 1..Len(entries) :
                  /\ entries[j].id = rows[j].id
                  /\ entries[j].content = rows[j].content
                  /\ entries[j].meta = rows[j].meta
                  /\ entries[j].sender.v["label"] = JStr(LabelOf(rows[j]))
                  /\ j > 1 => entries[j - 1].created_at < entries[j].created_at
            /\ (Returned /\ ctxSession = fullContext.session_id) =>
                  \A k \in 1..Len(context) :
                      \E j \in 1..Len(entries) :
                          /\ entries[j].id = context[k].id
                          /\ entries[j].sender = context[k].sender

\* A session of more than 30 messages, one of them 1300 characters long and
\* older than the last five, has been returned whole, while the compacted
\* context of the session has 30 entries
C22_Witness ==
    /\ FullReturned
    /\ Returned
    /\ ctxSession = fullContext.session_id
    /\ Len(fullContext.entries) > 30
    /\ Len(context) = 30
    /\ \E j \in 1..(Len(fullContext.entries) - 5) :
          Len(fullContext.entries[j].content) = 1300
    /\ \E j \in 1..Len(fullContext.entries) :
          fullContext.entries[j].sender.v["label"] = JStr("A2")

\* The two files of session s are the same after the step as before
FilesOfSessionUnchanged(s) ==
    /\ files'[chat_history_path(s)] = files[chat_history_path(s)]
    /\ files'[chat_history_split_path(s)] = files[chat_history_split_path(s)]

\* C23: with concurrent callers, a step of a call on session s leaves the
\* main file and the split file of every other session as they are.
C23_OtherSessionsUntouched ==
    [][\A c \in HistoryCallIds :
         hcalls'[c] # hcalls[c] =>
             \A s \in SessionIds \ {hcalls'[c].session_id} : FilesOfSessionUnchanged(s)
      ]_vars

\* While a write of "S1" is between truncating and filling its file, a
\* write of "S2" has written its record and an append is running on "S2"
C23_Witness ==
    /\ hcalls[1].op = "write" /\ hcalls[1].session_id = "S1"
    /\ hcalls[1].pc = "fill_main"
    /\ hcalls[2].op = "write" /\ hcalls[2].session_id = "S2"
    /\ hcalls[2].pc = "done"
    /\ hcalls[3].op = "append_to_split" /\ hcalls[3].session_id = "S2"
    /\ hcalls[3].pc = "fill_split"
    /\ files[chat_history_path("S1")] = Malformed
    /\ IsHistoryJson(files[chat_history_path("S2")])

\* A split file record as create_split_file writes it: compression_applied
\* false and split_file null
PlainSplitRecord(value) ==
    /\ IsHistoryJson(value)
    /\ value.v["metadata"].v["compression_applied"] = JBool(FALSE)
    /\ value.v["metadata"].v["split_file"] = JNull

\* C24: with concurrent callers, a step of a write_chat_history leaves every
\* split file as it is, whatever split_file reference the call was given; a
\* step of a create_split_file or append_to_split_file leaves every main
\* file as it is; and a split file that a step changes is left absent,
\* truncated, or holding a record with compression_applied false and
\* split_file null.
C24_MainAndSplitIndependent ==
    [][\A c \in HistoryCallIds :
         hcalls'[c] # hcalls[c] =>
             /\ hcalls'[c].op = "write" =>
                   \A s \in SessionIds :
                       files'[chat_history_split_path(s)] = files[chat_history_split_path(s)]
             /\ hcalls'[c].op \in {"create_split", "append_to_split"} =>
                   \A s \in SessionIds :
                       files'[chat_history_path(s)] = files[chat_history_path(s)]
             /\ \A s \in SessionIds :
                   LET path == chat_history_split_path(s)
                   IN  files'[path] # files[path] =>
                           \/ files'[path] \in {None, Malformed}
                           \/ PlainSplitRecord(files'[path])
      ]_vars

\* A write of "S1" given the reference "S1_split.json" has returned and
\* "S1" has no split file; a create_split_file of "S2" has returned, "S2" has
\* no main file and its split file is a plain split record
C24_Witness ==
    /\ \E c \in HistoryCallIds :
          /\ WroteRecord(c)
          /\ hcalls[c].session_id = "S1"
          /\ hcalls[c].split_file = chat_history_split_path("S1")
    /\ IsHistoryJson(files[chat_history_path("S1")])
    /\ ~Exists(files, chat_history_split_path("S1"))
    /\ \E c \in HistoryCallIds :
          /\ hcalls[c].op = "create_split" /\ hcalls[c].pc = "done"
          /\ hcalls[c].session_id = "S2"
    /\ ~Exists(files, chat_history_path("S2"))
    /\ PlainSplitRecord(files[chat_history_split_path("S2")])

\* C25: with concurrent callers, no delete_chat_history, read_chat_history or
\* append_to_split_file returns a filesystem error: a file that another
\* delete removed between the call's existence check and its access is
\* treated as absent.
C25_RemovedInBetweenIsAbsent ==
    \A c \in HistoryCallIds :
        (/\ hcalls[c].op \in {"delete", "read", "append_to_split"}
         /\ hcalls[c].pc = "done")
            => hcalls[c].result # "Io"

=============================================================================
